---- MODULE Spec2Model ----
(***************************************************************************)
(* lil-cad (src/src/main.ts): the polygon authoring state machine, the     *)
(* solid builder (ensureCCW, isConvexCCW, addConvexBody, acceptExtrusion), *)
(* the extrusion preview and the event handlers that drive them, together  *)
(* with the player body the keydown handler and the frame loop write.      *)
(*                                                                         *)
(* Numbers that the program divides (centroids, half heights, eye offset)  *)
(* are exact rationals [num, den] in lowest terms with den > 0.            *)
(***************************************************************************)
EXTENDS Integers, Sequences, FiniteSets, TLC

VARIABLES
    uxState,            \* main.ts:133  the authoring state (UxState)
    highlightedVertex,  \* main.ts:134  the snapped vertex of the last frame, or Null
    previewMesh,        \* main.ts:137  the preview mesh object, or Null
    scene,              \* main.ts:34   the children of the THREE scene, in insertion order
    world,              \* main.ts:84   the bodies of the CANNON world, in insertion order
    pointerLocked,      \* document.pointerLockElement === renderer.domElement
    keys,               \* main.ts:264  the movement codes currently held
    playerBody,         \* main.ts:95   position and velocity of the player body
    cameraPosition,     \* main.ts:39   camera.position
    rayHit,             \* what checkCanJump's downward ray reports for the current world
    lastOp,             \* the handler that ran last
    verts,              \* the polygon handed to the solid builder's convexity test
    tested,             \* the outcome of that test, or Null before it ran
    testMeshes,         \* main.ts:559  the meshes of the sidebar's test boxes
    testBodies          \* main.ts:560  the bodies of the sidebar's test boxes

vars == <<uxState, highlightedVertex, previewMesh, scene, world, pointerLocked,
          keys, playerBody, cameraPosition, rayHit, lastOp, verts, tested,
          testMeshes, testBodies>>

authoringVars == <<uxState, highlightedVertex, previewMesh, scene, world,
                   pointerLocked>>
playerVars == <<keys, playerBody, cameraPosition, rayHit>>
builderVars == <<verts, tested>>
testVars == <<testMeshes, testBodies>>

----------------------------------------------------------------------------
(* Bounds of the model *)

\* longest vertex list a Drawing state may hold
MaxVerts == 4
\* largest extrusion height ArrowUp may reach
MaxHeight == 3
\* solids the user may register on top of the default staircase
MaxSolids == 1
\* the convexity test is explored on polygons over two columns of the lattice,
\* x in {0, 1}, with z in 0..GridMax
GridMax == 2
\* ... of 3..MaxPolyLen vertices
MaxPolyLen == 5
\* largest denominator a horizontal velocity may take before the frames stop
MaxVelDen == 400
\* test boxes the sidebar may have launched and not yet cleared
MaxBoxes == 1

----------------------------------------------------------------------------
(* Values *)

Null == [t |-> "null"]

Vertex(x, z) == [x |-> x, z |-> z]

\* The lattice points the frame's snap may produce in the authoring runs: the
\* corners of a 2 x 2 square and its centre.
SnapPoints == {Vertex(0, 0), Vertex(2, 0), Vertex(2, 2), Vertex(0, 2), Vertex(1, 1)}

\* a point of the ground plane y = 0 (main.ts:529), x and z being numbers
GroundHit(x, z) == [x |-> x, z |-> z]

\* The ground hits of the authoring runs: the ray through the screen centre
\* meets the ground exactly at one of the SnapPoints.
SnapHits == {GroundHit([num |-> v.x, den |-> 1], [num |-> v.z, den |-> 1]) : v \in SnapPoints}

GridPoints == {Vertex(x, z) : x \in {0, 1}, z \in 0..GridMax}

Abs(i) == IF i < 0 THEN -i ELSE i

RECURSIVE Gcd(_, _)
Gcd(a, b) == IF b = 0 THEN a ELSE Gcd(b, a % b)

\* n / d as a number of the program
Rat(n, d) ==
    LET g == Gcd(Abs(n), Abs(d))
        s == IF d < 0 THEN -1 ELSE 1
    IN  [num |-> (s * n) \div g, den |-> (s * d) \div g]

RatInt(i) == [num |-> i, den |-> 1]
RatAdd(a, b) == Rat(a.num * b.den + b.num * a.den, a.den * b.den)
RatSub(a, b) == Rat(a.num * b.den - b.num * a.den, a.den * b.den)
RatMul(a, b) == Rat(a.num * b.num, a.den * b.den)
RatNeg(a) == [num |-> -a.num, den |-> a.den]
\* a < b
RatLess(a, b) == a.num * b.den < b.num * a.den

Vec3(x, y, z) == [x |-> x, y |-> y, z |-> z]

Reverse(s) == [i \in 1..Len(s) |-> s[Len(s) + 1 - i]]

RECURSIVE SumSeq(_)
SumSeq(s) == IF s = <<>> THEN 0 ELSE Head(s) + SumSeq(Tail(s))

\* s without its first occurrence of x (Object3D.remove: one object, by identity)
RemoveFirst(s, x) ==
    IF \E i \in 1..Len(s) : s[i] = x
    THEN LET k == CHOOSE i \in 1..Len(s) : s[i] = x /\ \A j \in 1..(i - 1) : s[j] # x
         IN  [i \in 1..(Len(s) - 1) |-> IF i < k THEN s[i] ELSE s[i + 1]]
    ELSE s

----------------------------------------------------------------------------
(* Pure functions of main.ts *)

\* main.ts:121-123
vertexEqual(a, b) == a.x = b.x /\ a.z = b.z

\* main.ts:177  the cross product of one consecutive triple (i counts from 0)
Cross(vs, i) ==
    LET n == Len(vs)
        a == vs[i + 1]
        b == vs[((i + 1) % n) + 1]
        c == vs[((i + 2) % n) + 1]
    IN  (b.x - a.x) * (c.z - a.z) - (b.z - a.z) * (c.x - a.x)

\* a plausible slip: a corner with cross product 0 fails the test as well
isConvexCCW_strict(vs) ==
    /\ Len(vs) >= 3
    /\ \A i \in 0..(Len(vs) - 1) : Cross(vs, i) > 0

\* main.ts:172-181
isConvexCCW(vs) ==
    /\ Len(vs) >= 3
    /\ \A i \in 0..(Len(vs) - 1) : ~(Cross(vs, i) < 0)

\* main.ts:184-188  the shoelace sum (twice the signed area)
ShoelaceSum(vs) ==
    LET n == Len(vs)
    IN  SumSeq([k \in 1..n |->
            vs[k].x * vs[(k % n) + 1].z - vs[(k % n) + 1].x * vs[k].z])

\* a plausible slip: the winding test inverted
ensureCCW_inverted(vs) == IF ShoelaceSum(vs) < 0 THEN vs ELSE Reverse(vs)

\* main.ts:183-190
ensureCCW(vs) == IF ShoelaceSum(vs) > 0 THEN vs ELSE Reverse(vs)

\* main.ts:139-147  the extrusion geometry: the 2D cross-section (x, -z) and its depth
makeExtrudedGeo(vs, height) ==
    [shape |-> [i \in 1..Len(vs) |-> [x |-> vs[i].x, y |-> -vs[i].z]],
     depth |-> height]

\* main.ts:161-168 (preview, translucent) and main.ts:242-245 (solid, opaque)
Mesh(geo, transparent) ==
    [kind |-> "extrusion", shape |-> geo.shape, depth |-> geo.depth,
     transparent |-> transparent]

----------------------------------------------------------------------------
(* The render scene, the physics world and the preview.  The operators take *)
(* and return the objects they touch: g = [scene, previewMesh, world].      *)
(* console.warn (main.ts:239) writes to the browser console only.          *)

\* main.ts:149-156
clearPreview(g) ==
    IF g.previewMesh # Null
    THEN [g EXCEPT !.scene = RemoveFirst(g.scene, g.previewMesh),
                   !.previewMesh = Null]
    ELSE g

\* a plausible slip: the old preview is not cleared before the new one is built
updatePreview_noClear(g, vertices, extrusion) ==
    IF extrusion <= 0
    THEN g
    ELSE LET m == Mesh(makeExtrudedGeo(vertices, extrusion), TRUE)
         IN  [g EXCEPT !.previewMesh = m, !.scene = Append(g.scene, m)]

\* main.ts:158-170
updatePreview(g, vertices, extrusion) ==
    LET c == clearPreview(g)
    IN  IF extrusion <= 0
        THEN c
        ELSE LET m == Mesh(makeExtrudedGeo(vertices, extrusion), TRUE)
             IN  [c EXCEPT !.previewMesh = m, !.scene = Append(c.scene, m)]

\* main.ts:198-203  the centroid and the half height
Centroid(ccw, height) ==
    LET n == Len(ccw)
    IN  Vec3(Rat(SumSeq([i \in 1..n |-> ccw[i].x]), n),
             Rat(height, 2),
             Rat(SumSeq([i \in 1..n |-> ccw[i].z]), n))

\* main.ts:205-207  n bottom vertices, then n top vertices, centred at the origin
CannonVerts(ccw, c) ==
    LET n == Len(ccw)
    IN  [k \in 1..(2 * n) |->
            LET v == ccw[((k - 1) % n) + 1]
            IN  Vec3(RatSub(RatInt(v.x), c.x),
                     IF k <= n THEN RatNeg(c.y) ELSE c.y,
                     RatSub(RatInt(v.z), c.z))]

\* a plausible slip: the top face lists its vertices in the order of the bottom
Faces_topForward(n) ==
    <<[k \in 1..n |-> k - 1], [k \in 1..n |-> n + (k - 1)]>>
    \o [k \in 1..n |->
            LET i == k - 1
                next == (i + 1) % n
            IN  <<next, i, n + i, n + next>>]

\* main.ts:209-225  bottom face, top face, n side faces (indices count from 0)
Faces(n) ==
    <<[k \in 1..n |-> k - 1], [k \in 1..n |-> n + (n - k)]>>
    \o [k \in 1..n |->
            LET i == k - 1
                next == (i + 1) % n
            IN  <<next, i, n + i, n + next>>]

\* a plausible slip: the body is placed on the ground plane (y = 0), not at h/2
BodyPosition_onGround(c) == Vec3(c.x, RatInt(0), c.z)

\* main.ts:231
BodyPosition(c) == Vec3(c.x, c.y, c.z)

\* a plausible slip: the convexity verdict is ignored
addConvexBody_unchecked(g, vs, height) ==
    LET ccw == ensureCCW(vs)
        c == Centroid(ccw, height)
        body == [kind |-> "convex", mass |-> 0, position |-> BodyPosition(c),
                 vertices |-> CannonVerts(ccw, c), faces |-> Faces(Len(ccw))]
    IN  [ok |-> TRUE, g |-> [g EXCEPT !.world = Append(g.world, body)]]

\* main.ts:192-234
addConvexBody(g, vs, height) ==
    LET ccw == ensureCCW(vs)
    IN  IF ~isConvexCCW(ccw)
        THEN [ok |-> FALSE, g |-> g]
        ELSE LET c == Centroid(ccw, height)
                 body == [kind |-> "convex", mass |-> 0, position |-> BodyPosition(c),
                          vertices |-> CannonVerts(ccw, c), faces |-> Faces(Len(ccw))]
             IN  [ok |-> TRUE, g |-> [g EXCEPT !.world = Append(g.world, body)]]

\* a plausible slip: the mesh is added before the builder's verdict is looked at
acceptExtrusion_meshFirst(g, vertices, extrusion) ==
    LET c == clearPreview(g)
        b == addConvexBody(c, vertices, extrusion)
        mesh == Mesh(makeExtrudedGeo(vertices, extrusion), FALSE)
    IN  [ok |-> b.ok, g |-> [b.g EXCEPT !.scene = Append(b.g.scene, mesh)]]

\* main.ts:236-248
acceptExtrusion(g, vertices, extrusion) ==
    LET c == clearPreview(g)
        b == addConvexBody(c, vertices, extrusion)
    IN  IF ~b.ok
        THEN [ok |-> FALSE, g |-> b.g]
        ELSE LET mesh == Mesh(makeExtrudedGeo(vertices, extrusion), FALSE)
             IN  [ok |-> TRUE, g |-> [b.g EXCEPT !.scene = Append(b.g.scene, mesh)]]

\* main.ts:251  the staircase has 3 steps
StairCount == 3

\* main.ts:251-259  the i-th step of the default staircase (i = 0, 1, 2)
StairVerts(i) ==
    LET z == -2 - i * 2
    IN  <<Vertex(-1, z), Vertex(1, z), Vertex(1, z - 2), Vertex(-1, z - 2)>>

StairHeight(i) == i + 1

\* main.ts:34-102  the scene and the world before the staircase is built
EmptyStage ==
    [scene |-> <<[kind |-> "floor"], [kind |-> "ambientLight"], [kind |-> "dirLight"]>>,
     previewMesh |-> Null,
     world |-> <<[kind |-> "ground"], [kind |-> "player"]>>]

\* main.ts:250-261  the staircase loop
RECURSIVE BuildStairs(_, _)
BuildStairs(g, i) ==
    IF i >= StairCount THEN g
    ELSE BuildStairs(acceptExtrusion(g, StairVerts(i), StairHeight(i)).g, i + 1)

Stage == [scene |-> scene, previewMesh |-> previewMesh, world |-> world]

SetStage(g) ==
    /\ scene' = g.scene
    /\ previewMesh' = g.previewMesh
    /\ world' = g.world

\* the meshes of registered solids and the static extrusion bodies
SolidMeshes(sc) == SelectSeq(sc, LAMBDA m : m.kind = "extrusion" /\ ~m.transparent)
PreviewMeshes(sc) == SelectSeq(sc, LAMBDA m : m.kind = "extrusion" /\ m.transparent)
SolidBodies(w) == SelectSeq(w, LAMBDA b : b.kind = "convex")

----------------------------------------------------------------------------
(* The player body and the frame's character controller *)

\* main.ts:456
moveSpeed == 5
\* main.ts:269  the jump impulse
jumpSpeed == 6
\* a plausible slip: the camera is put at the body's centre
eyeOffset_none == RatInt(0)
\* main.ts:116  eyeOffset = 0.6
eyeOffset == Rat(3, 5)
\* a plausible slip: with no key held the air blend takes the whole difference
airDecel_instant == RatInt(1)
\* main.ts:493-494  airAccel = airDecel = 0.05
airAccel == Rat(1, 20)
airDecel == Rat(1, 20)

MoveCodes == {"KeyW", "KeyS", "KeyD", "KeyA"}

Zero == RatInt(0)

\* main.ts:104-114  the closest-hit query is the physics engine's: rayHit is its
\* answer (a hit on a body other than the player) for the current world
checkCanJump == rayHit

\* a plausible slip: the jump is not guarded by the ground check
JumpVelocity_unguarded(v, code, canJump) ==
    IF code = "Space" THEN [v EXCEPT !.y = RatInt(jumpSpeed)] ELSE v

\* a plausible slip: the jump sets the whole velocity, not its y component
JumpVelocity_straightUp(v, code, canJump) ==
    IF code = "Space" /\ canJump THEN Vec3(Zero, RatInt(jumpSpeed), Zero) ELSE v

\* main.ts:268-270  the velocity after a keydown of code
JumpVelocity(v, code, canJump) ==
    IF code = "Space" /\ canJump THEN [v EXCEPT !.y = RatInt(jumpSpeed)] ELSE v

\* main.ts:471-490  the desired horizontal velocity (x, z).  With yaw = 0
\* (main.ts:287) forward is (0, 0, -1) and right is (1, 0, 0); a diagonal is
\* normalised with 1/sqrt(2) taken as 7071/10000.
InputVel(held) ==
    LET x == (IF "KeyD" \in held THEN 1 ELSE 0) - (IF "KeyA" \in held THEN 1 ELSE 0)
        z == (IF "KeyS" \in held THEN 1 ELSE 0) - (IF "KeyW" \in held THEN 1 ELSE 0)
        lengthSq == x * x + z * z
        unit == IF lengthSq = 2 THEN Rat(7071, 10000) ELSE RatInt(1)
    IN  IF lengthSq > 0
        THEN [x |-> RatMul(RatInt(x * moveSpeed), unit),
              z |-> RatMul(RatInt(z * moveSpeed), unit)]
        ELSE [x |-> Zero, z |-> Zero]

\* main.ts:496-503  the velocity handed to the physics step
PreStepVelocity(v, inputVel, onGround) ==
    IF onGround
    THEN [v EXCEPT !.x = inputVel.x, !.z = inputVel.z]
    ELSE LET airBlend == IF inputVel.x # Zero \/ inputVel.z # Zero
                         THEN airAccel ELSE airDecel
         IN  [v EXCEPT !.x = RatAdd(v.x, RatMul(RatSub(inputVel.x, v.x), airBlend)),
                       !.z = RatAdd(v.z, RatMul(RatSub(inputVel.z, v.z), airBlend))]

\* a plausible slip: the assignment after the physics step is left out
PostStepVelocity_skipped(v, inputVel, onGround) == v

\* main.ts:507-510
PostStepVelocity(v, inputVel, onGround) ==
    IF onGround THEN [v EXCEPT !.x = inputVel.x, !.z = inputVel.z] ELSE v

\* The places the physics step may leave the player in: standing on the ground
\* plane (main.ts:99) and one unit above it.
PlayerPositions == {Vec3(Zero, RatInt(1), RatInt(5)), Vec3(Zero, RatInt(2), RatInt(5))}

\* the vertical velocities the physics step may leave: at rest, falling, rising
StepVelY == {Zero, RatInt(-1), RatInt(jumpSpeed)}

\* a horizontal velocity component a contact impulse of the step may leave
StepPush == RatInt(1)

\* main.ts:505  world.step(1 / 60, dt, 3) is the physics engine's.  With moving
\* FALSE the player body rests where it is; with moving TRUE the step leaves it
\* at any of the modelled positions and vertical velocities, keeps, stops or
\* pushes (contact) each horizontal velocity component, and the downward ray of
\* the next query hits or misses.
StepOutcomes(body, hit, moving) ==
    IF ~moving
    THEN {[body |-> body, rayHit |-> hit]}
    ELSE {[body |-> [position |-> p, velocity |-> Vec3(vx, vy, vz)], rayHit |-> h] :
             p \in PlayerPositions, vx \in {body.velocity.x, Zero, StepPush},
             vy \in StepVelY, vz \in {body.velocity.z, Zero, StepPush},
             h \in BOOLEAN}

----------------------------------------------------------------------------
(* The authoring state machine *)

Idle == [t |-> "idle"]
Drawing(vs) == [t |-> "drawing", vertices |-> vs]
Polygon(vs, e) == [t |-> "polygon", vertices |-> vs, extrusion |-> e]

\* the handler that ran, its key code ("" when it has none) and the authoring
\* state it ran in
Op(name, code) == [op |-> name, code |-> code, from |-> uxState.t]

\* a frame ran: besides the above, the movement codes it found held, what its
\* ground check said (main.ts:492), the velocity it started with and the
\* velocity it handed to the physics step (main.ts:496-503)
\* and the ground hit of its ray through the screen centre (main.ts:529), Null
\* when the ray missed the ground or was not cast
FrameOp(onGround, before, blended, groundHit) ==
    [op |-> "animate", code |-> "", from |-> uxState.t, held |-> keys,
     onGround |-> onGround, before |-> before, blended |-> blended,
     groundHit |-> groundHit]

\* main.ts:297-300  a click in idle with the snapped vertex hv (or Null)
ClickIdle(hv) == IF hv # Null THEN Drawing(<<hv>>) ELSE Idle

\* a plausible slip: the new vertex is put in front of the list
ClickDrawing_prepend(ux, hv) ==
    IF hv = Null THEN ux
    ELSE IF Len(ux.vertices) >= 3 /\ vertexEqual(hv, ux.vertices[1])
         THEN Polygon(ux.vertices, 0)
         ELSE IF ~vertexEqual(hv, ux.vertices[Len(ux.vertices)])
              THEN Drawing(<<hv>> \o ux.vertices)
              ELSE ux

\* a plausible slip: no test against the most recently placed vertex
ClickDrawing_noLastTest(ux, hv) ==
    IF hv = Null THEN ux
    ELSE IF Len(ux.vertices) >= 3 /\ vertexEqual(hv, ux.vertices[1])
         THEN Polygon(ux.vertices, 0)
         ELSE Drawing(Append(ux.vertices, hv))

\* a plausible slip: the test against the last vertex comes before the closing test
ClickDrawing_lastFirst(ux, hv) ==
    IF hv = Null THEN ux
    ELSE IF vertexEqual(hv, ux.vertices[Len(ux.vertices)])
         THEN ux
         ELSE IF Len(ux.vertices) >= 3 /\ vertexEqual(hv, ux.vertices[1])
              THEN Polygon(ux.vertices, 0)
              ELSE Drawing(Append(ux.vertices, hv))

\* a plausible slip: two vertices are enough to close
ClickDrawing_closeAtTwo(ux, hv) ==
    IF hv = Null THEN ux
    ELSE IF Len(ux.vertices) >= 2 /\ vertexEqual(hv, ux.vertices[1])
         THEN Polygon(ux.vertices, 0)
         ELSE IF ~vertexEqual(hv, ux.vertices[Len(ux.vertices)])
              THEN Drawing(Append(ux.vertices, hv))
              ELSE ux

\* main.ts:302-311  a click in drawing with the snapped vertex hv (or Null)
ClickDrawing(ux, hv) ==
    IF hv = Null THEN ux
    ELSE IF Len(ux.vertices) >= 3 /\ vertexEqual(hv, ux.vertices[1])
         THEN Polygon(ux.vertices, 0)
         ELSE IF ~vertexEqual(hv, ux.vertices[Len(ux.vertices)])
              THEN Drawing(Append(ux.vertices, hv))
              ELSE ux

\* a plausible slip: ArrowDown without the clamp at 0
AdjustHeight_noClamp(extrusion, code) ==
    IF code = "ArrowUp" THEN extrusion + 1
    ELSE IF code = "ArrowDown" THEN extrusion - 1
    ELSE extrusion

\* main.ts:273-279  the extrusion after a keydown of code in the polygon state
AdjustHeight(extrusion, code) ==
    IF code = "ArrowUp" THEN extrusion + 1
    ELSE IF code = "ArrowDown" THEN (IF extrusion - 1 > 0 THEN extrusion - 1 ELSE 0)
    ELSE extrusion

\* a plausible slip: a confirm at height 0 is not filtered out
ConfirmAllowed_any(extrusion) == TRUE

\* main.ts:313  a click on a pending extrusion is a confirm only at a height > 0
ConfirmAllowed(extrusion) == extrusion > 0

\* main.ts:314-316  the state after a confirm, given acceptExtrusion's result
ConfirmNext(ux, ok) == IF ok THEN Idle ELSE ux

\* a plausible slip: cancel forgets to clear the preview
CancelStage_keep(g) == g

\* main.ts:325
CancelStage(g) == clearPreview(g)

----------------------------------------------------------------------------
(* Initial state: main.ts after its top-level code has run *)

InitAuthoring ==
    LET g == BuildStairs(EmptyStage, 0)
    IN  /\ uxState = Idle
        /\ highlightedVertex = Null
        /\ previewMesh = g.previewMesh
        /\ scene = g.scene
        /\ world = g.world
        /\ pointerLocked = FALSE
        /\ lastOp = [op |-> "init", code |-> "", from |-> "idle"]

\* main.ts:559-560
InitTest ==
    /\ testMeshes = <<>>
    /\ testBodies = <<>>

InitPlayer ==
    /\ keys = {}
    /\ playerBody = [position |-> Vec3(Zero, RatInt(1), RatInt(5)),
                     velocity |-> Vec3(Zero, Zero, Zero)]
    /\ cameraPosition = Vec3(Zero, Rat(8, 5), RatInt(5))
    /\ rayHit = TRUE

Init ==
    /\ InitAuthoring
    /\ InitPlayer
    /\ InitTest
    /\ verts = <<>>
    /\ tested = Null

----------------------------------------------------------------------------
(* Event handlers *)

\* main.ts:290-320  the click handler of the canvas
Click ==
    /\ lastOp' = Op("click", "")
    /\ IF ~pointerLocked
       THEN \* requestPointerLock(): the browser grants the lock or not
            /\ pointerLocked' \in BOOLEAN
            /\ UNCHANGED <<uxState, previewMesh, scene, world, rayHit>>
       ELSE /\ UNCHANGED pointerLocked
            /\ CASE uxState.t = "idle" ->
                      /\ highlightedVertex # Null =>
                             Len(SolidBodies(world)) < StairCount + MaxSolids
                      /\ uxState' = ClickIdle(highlightedVertex)
                      /\ UNCHANGED <<previewMesh, scene, world, rayHit>>
                 [] uxState.t = "drawing" ->
                      /\ Len(ClickDrawing(uxState, highlightedVertex).vertices) <= MaxVerts
                      /\ uxState' = ClickDrawing(uxState, highlightedVertex)
                      /\ UNCHANGED <<previewMesh, scene, world, rayHit>>
                 [] uxState.t = "polygon" ->
                      IF ConfirmAllowed(uxState.extrusion)
                      THEN LET r == acceptExtrusion(Stage, uxState.vertices,
                                                    uxState.extrusion)
                           IN  /\ SetStage(r.g)
                               /\ uxState' = ConfirmNext(uxState, r.ok)
                               \* a body added under the player is hit by the ray
                               /\ rayHit' \in (IF r.ok THEN {rayHit, TRUE} ELSE {rayHit})
                      ELSE UNCHANGED <<uxState, previewMesh, scene, world, rayHit>>
    /\ UNCHANGED <<highlightedVertex, keys, playerBody, cameraPosition, builderVars,
                   testVars>>

\* main.ts:322-328  the contextmenu (secondary click) handler
ContextMenu ==
    /\ lastOp' = Op("contextmenu", "")
    /\ IF uxState.t = "polygon"
       THEN /\ SetStage(CancelStage(Stage))
            /\ uxState' = Idle
       ELSE UNCHANGED <<uxState, previewMesh, scene, world>>
    /\ UNCHANGED <<highlightedVertex, pointerLocked, playerVars, builderVars, testVars>>

\* main.ts:266-281  the keydown handler
KeyDown(code) ==
    /\ lastOp' = Op("keydown", code)
    /\ keys' = IF code \in MoveCodes THEN keys \cup {code} ELSE keys
    /\ playerBody' = [playerBody EXCEPT
                         !.velocity = JumpVelocity(@, code, checkCanJump)]
    /\ IF uxState.t = "polygon" /\ code \in {"ArrowUp", "ArrowDown"}
       THEN LET e == AdjustHeight(uxState.extrusion, code)
            IN  /\ e <= MaxHeight
                /\ uxState' = [uxState EXCEPT !.extrusion = e]
                /\ SetStage(updatePreview(Stage, uxState.vertices, e))
       ELSE UNCHANGED <<uxState, previewMesh, scene, world>>
    /\ UNCHANGED <<highlightedVertex, pointerLocked, cameraPosition, rayHit, builderVars,
                   testVars>>

\* main.ts:282-284  the keyup handler
KeyUp(code) ==
    /\ lastOp' = Op("keyup", code)
    /\ keys' = keys \ {code}
    /\ UNCHANGED <<authoringVars, playerBody, cameraPosition, rayHit, builderVars,
                   testVars>>

\* main.ts:531-532  Math.round: the nearest integer, a half going up
MathRound(r) == (2 * r.num + r.den) \div (2 * r.den)

\* main.ts:536  the snap radius
snapRadius == 8

\* the square of camera.position.distanceTo(vertexWorld) (main.ts:533-534)
DistanceSq(cam, vx, vz) ==
    LET dx == RatSub(cam.x, RatInt(vx))
        dz == RatSub(cam.z, RatInt(vz))
    IN  RatAdd(RatAdd(RatMul(dx, dx), RatMul(cam.y, cam.y)), RatMul(dz, dz))

\* a plausible slip: the distance is taken on the ground plane only
WithinRadius_flat(cam, vx, vz) ==
    RatLess(DistanceSq([cam EXCEPT !.y = Zero], vx, vz), RatInt(snapRadius * snapRadius))

\* main.ts:536  distToCamera < 8
WithinRadius(cam, vx, vz) ==
    RatLess(DistanceSq(cam, vx, vz), RatInt(snapRadius * snapRadius))

\* main.ts:529-547  the snapped vertex of a frame whose camera is at cam and
\* whose ray meets the ground at hit (Null: no intersection).  onTarget is the
\* outcome of the screen-space test of main.ts:537-541, which the rendering
\* engine's projection decides.
Snap(cam, hit, onTarget) ==
    IF hit = Null THEN Null
    ELSE LET vx == MathRound(hit.x)
             vz == MathRound(hit.z)
         IN  IF WithinRadius(cam, vx, vz) /\ onTarget THEN Vertex(vx, vz) ELSE Null

\* main.ts:459-553  one frame.  hits are the points the ray through the screen
\* centre may meet the ground at in this run; moving tells whether the physics
\* step moves the player.
Animate(moving, hits) ==
    LET inputVel == InputVel(keys)
        onGround == checkCanJump
        pre == PreStepVelocity(playerBody.velocity, inputVel, onGround)
    IN  /\ pre.x.den <= MaxVelDen /\ pre.z.den <= MaxVelDen
        /\ \E o \in StepOutcomes([playerBody EXCEPT !.velocity = pre], rayHit, moving) :
              /\ playerBody' = [o.body EXCEPT !.velocity =
                                   PostStepVelocity(o.body.velocity, inputVel, onGround)]
              /\ cameraPosition' = Vec3(o.body.position.x,
                                        RatAdd(o.body.position.y, eyeOffset),
                                        o.body.position.z)
              /\ rayHit' = o.rayHit
        /\ IF uxState.t # "polygon"
           THEN \E hit \in hits \cup {Null} :
                \E onTarget \in (IF hit = Null THEN {FALSE} ELSE BOOLEAN) :
                   /\ highlightedVertex' = Snap(cameraPosition', hit, onTarget)
                   /\ lastOp' = FrameOp(onGround, playerBody.velocity, pre, hit)
           ELSE /\ highlightedVertex' = Null
                /\ lastOp' = FrameOp(onGround, playerBody.velocity, pre, Null)
        /\ UNCHANGED <<uxState, previewMesh, scene, world, pointerLocked, keys,
                       builderVars, testVars>>

\* main.ts:558  testBoxHalf: the half extent 0.3 of a test box on each axis
testBoxHalf == Rat(3, 10)

\* main.ts:562-577  launchTestBox(x, y, z, vx, vz): one mesh into the scene and
\* testMeshes, one body of mass 1 into the world and testBodies.  The body's
\* later motion is the physics engine's; the record keeps what it was launched
\* with.
launchTestBox(x, y, z, vx, vz) ==
    LET mesh == [kind |-> "box", size |-> RatMul(testBoxHalf, RatInt(2))]
        body == [kind |-> "box", mass |-> 1, halfExtents |-> testBoxHalf,
                 launch |-> [position |-> Vec3(x, y, z),
                             velocity |-> Vec3(vx, Zero, vz)]]
    IN  /\ Len(testBodies) < MaxBoxes
        /\ scene' = Append(scene, mesh)
        /\ testMeshes' = Append(testMeshes, mesh)
        /\ world' = Append(world, body)
        /\ testBodies' = Append(testBodies, body)

\* a plausible slip: as many objects as listed are dropped from the end
RemoveAll_fromEnd(s, rs) == SubSeq(s, 1, Len(s) - Len(rs))

\* s without the objects listed in rs, removed one by one (main.ts:589, 594)
RECURSIVE RemoveAll(_, _)
RemoveAll(s, rs) ==
    IF rs = <<>> THEN s ELSE RemoveAll(RemoveFirst(s, Head(rs)), Tail(rs))

\* main.ts:579-581  the first test button
LaunchTest1 ==
    /\ lastOp' = Op("btn-test1", "")
    /\ launchTestBox(Zero, RatInt(8), Rat(-19, 5), Zero, Zero)
    /\ UNCHANGED <<uxState, highlightedVertex, previewMesh, pointerLocked, playerVars,
                   builderVars>>

\* main.ts:583-585  the second test button
LaunchTest2 ==
    /\ lastOp' = Op("btn-test2", "")
    /\ launchTestBox(Zero, testBoxHalf, RatInt(2), Zero, RatInt(-5))
    /\ UNCHANGED <<uxState, highlightedVertex, previewMesh, pointerLocked, playerVars,
                   builderVars>>

\* the clear button ran: besides the handler and the state it ran in, the
\* number of test boxes it found
ClearOp(n) == [op |-> "btn-clear", code |-> "", from |-> uxState.t, boxes |-> n]

\* main.ts:587-598  the clear button
ClearTestBoxes ==
    /\ lastOp' = ClearOp(Len(testBodies))
    /\ scene' = RemoveAll(scene, testMeshes)
    /\ world' = RemoveAll(world, testBodies)
    /\ testMeshes' = <<>>
    /\ testBodies' = <<>>
    /\ UNCHANGED <<uxState, highlightedVertex, previewMesh, pointerLocked, playerVars,
                   builderVars>>

----------------------------------------------------------------------------
(* Specifications *)

\* The authoring runs: clicks, secondary clicks, the height keys and frames whose
\* snap ranges over SnapPoints, with the player at rest.
Next ==
    \/ Click
    \/ ContextMenu
    \/ \E code \in {"ArrowUp", "ArrowDown"} : KeyDown(code)
    \/ Animate(FALSE, SnapHits)

Spec == Init /\ [][Next]_vars

\* The player runs: the jump and forward keys and frames whose physics step
\* moves the player; nobody clicks and no vertex is in reach of the snap.
NextPlayer ==
    \/ \E code \in {"Space", "KeyW"} : KeyDown(code)
    \/ \E code \in {"Space", "KeyW"} : KeyUp(code)
    \/ Animate(TRUE, {})

SpecPlayer == Init /\ [][NextPlayer]_vars

\* The runs of a player who jumps while an extrusion is pending.  They start
\* right after the click that closed the square (0,0),(2,0),(2,2),(0,2): the
\* pointer is locked, the height is 0 and the last frame's snap is still the
\* clicked corner.
InitJump ==
    LET g == BuildStairs(EmptyStage, 0)
    IN  /\ uxState = Polygon(<<Vertex(0, 0), Vertex(2, 0), Vertex(2, 2), Vertex(0, 2)>>, 0)
        /\ highlightedVertex = Vertex(0, 0)
        /\ previewMesh = g.previewMesh
        /\ scene = g.scene
        /\ world = g.world
        /\ pointerLocked = TRUE
        /\ lastOp = [op |-> "click", code |-> "", from |-> "drawing"]
        /\ InitPlayer
        /\ InitTest
        /\ verts = <<>>
        /\ tested = Null

NextJump ==
    \/ \E code \in {"Space", "ArrowUp", "ArrowDown"} : KeyDown(code)
    \/ Click
    \/ ContextMenu
    \/ Animate(TRUE, {})

SpecJump == InitJump /\ [][NextJump]_vars

\* The ground hits of the snapping runs: between lattice points, under the
\* camera, near the snap radius and beyond it.
ProbeHits ==
    {GroundHit(Rat(1, 2), Rat(5, 2)), GroundHit(Rat(-1, 2), Rat(9, 2)),
     GroundHit(Rat(29, 5), Rat(1, 5)), GroundHit(RatInt(0), RatInt(-3)),
     GroundHit(RatInt(7), RatInt(1))}

\* the places on the ground plane the player stands at in the snapping runs
SnapStands ==
    {Vec3(x, RatInt(1), z) : x \in {Rat(-1, 2), Zero, RatInt(1)},
                             z \in {Rat(7, 2), RatInt(5), RatInt(6)}}

\* The snapping runs start with the player at rest somewhere near the start
\* position, the camera at eye height above it.
InitSnap ==
    /\ InitAuthoring
    /\ keys = {}
    /\ \E p \in SnapStands :
          /\ playerBody = [position |-> p, velocity |-> Vec3(Zero, Zero, Zero)]
          /\ cameraPosition = Vec3(p.x, RatAdd(p.y, eyeOffset), p.z)
    /\ rayHit = TRUE
    /\ InitTest
    /\ verts = <<>>
    /\ tested = Null

\* ... and go on with frames whose ray meets the ground at one of the ProbeHits
\* or misses it, and with clicks that capture what the frames snapped.
NextSnap ==
    \/ Animate(FALSE, ProbeHits)
    \/ Click

SpecSnap == InitSnap /\ [][NextSnap]_vars

\* The authoring runs together with the sidebar's three buttons.
NextSidebar ==
    \/ Next
    \/ LaunchTest1
    \/ LaunchTest2
    \/ ClearTestBoxes

SpecSidebar == Init /\ [][NextSidebar]_vars

\* The polygons the convexity test is explored on: the vertex lists a Drawing
\* can hold (main.ts:307, no vertex repeats its predecessor)
Polygons ==
    {p \in UNION {[1..n -> GridPoints] : n \in 3..MaxPolyLen} :
        \A i \in 1..(Len(p) - 1) : ~vertexEqual(p[i], p[i + 1])}

InitBuilder ==
    /\ InitAuthoring
    /\ InitPlayer
    /\ InitTest
    /\ verts \in Polygons
    /\ tested = Null

\* main.ts:192-234  addConvexBody(verts, 1) on the stage the program starts with
Build ==
    /\ tested = Null
    /\ LET r == addConvexBody(Stage, verts, 1)
       IN  /\ SetStage(r.g)
           /\ tested' = [ok |-> r.ok]
    /\ lastOp' = Op("addConvexBody", "")
    /\ UNCHANGED <<uxState, highlightedVertex, pointerLocked, playerVars, verts, testVars>>

NextBuilder == Build

SpecBuilder == InitBuilder /\ [][NextBuilder]_vars

----------------------------------------------------------------------------
(* Claims *)

Range(q) == {q[i] : i \in 1..Len(q)}
Distinct(q) == \A i, j \in 1..Len(q) : i # j => q[i] # q[j]
Last(q) == q[Len(q)]
Rotate(q, k) == [i \in 1..Len(q) |-> q[((i - 1 + k) % Len(q)) + 1]]

\* the solid builder's verdict on a polygon, as a confirm click meets it
Accepts(vs) == addConvexBody(EmptyStage, vs, 1).ok

Square == <<Vertex(0, 0), Vertex(2, 0), Vertex(2, 2), Vertex(0, 2)>>
Reflex == <<Vertex(0, 0), Vertex(2, 0), Vertex(1, 1), Vertex(2, 2)>>

\* the step is a click the authoring state machine handles
ClickStep == lastOp' = Op("click", "") /\ pointerLocked
\* ... and it is a confirm of a pending extrusion of positive height
ConfirmStep == ClickStep /\ uxState.t = "polygon" /\ uxState.extrusion > 0

\* the step formula of C1
C1_ClickSequenceStep ==
    (ClickStep /\ highlightedVertex # Null) =>
        /\ uxState.t = "idle" => uxState' = Drawing(<<highlightedVertex>>)
        /\ (uxState.t = "drawing" /\ Distinct(uxState.vertices)
              /\ highlightedVertex \notin Range(uxState.vertices)) =>
               uxState' = Drawing(Append(uxState.vertices, highlightedVertex))
        /\ (uxState.t = "drawing" /\ Distinct(uxState.vertices)
              /\ Len(uxState.vertices) >= 3
              /\ highlightedVertex = uxState.vertices[1]) =>
               uxState' = Polygon(uxState.vertices, 0)

\* C1: with the pointer locked, a click in Idle on a snapped vertex starts a
\* Drawing holding that vertex; a click in Drawing on a snapped vertex not yet in
\* a list of pairwise distinct vertices appends it at the end; and a click on the
\* first vertex of a list of at least 3 pairwise distinct vertices moves to
\* PendingExtrusion with the list as clicked, in order, and height 0.
C1_ClickSequence == [][C1_ClickSequenceStep]_vars

\* C1 witness: the four corners of the square were clicked in order and the
\* closing click on the first corner has just been handled
C1_Witness ==
    /\ lastOp = [op |-> "click", code |-> "", from |-> "drawing"]
    /\ uxState = Polygon(Square, 0)

\* the step formula of C2
C2_RejectedConfirmStep ==
    (ConfirmStep /\ ~isConvexCCW(ensureCCW(uxState.vertices))) =>
        /\ uxState' = uxState
        /\ world' = world
        /\ Range(scene') \subseteq Range(scene)
        /\ Len(scene') <= Len(scene)
        /\ SolidMeshes(scene') = SolidMeshes(scene)

\* C2: a confirm click on a pending extrusion of height > 0 whose polygon the
\* convexity test rejects adds nothing to the scene, leaves the physics world as
\* it is, and leaves the authoring state PendingExtrusion with the same vertices
\* and height.
C2_RejectedConfirm == [][C2_RejectedConfirmStep]_vars

\* C2 witness: a confirm of the reflex quadrilateral at a positive height was
\* handled and rejected
C2_Witness ==
    /\ lastOp = [op |-> "click", code |-> "", from |-> "polygon"]
    /\ uxState.t = "polygon"
    /\ uxState.vertices = Reflex
    /\ uxState.extrusion > 0
    /\ Len(SolidBodies(world)) = StairCount

\* the mean of the x (or z) coordinates of a vertex list
MeanX(vs) == Rat(SumSeq([i \in 1..Len(vs) |-> vs[i].x]), Len(vs))
MeanZ(vs) == Rat(SumSeq([i \in 1..Len(vs) |-> vs[i].z]), Len(vs))

\* twice the area of a mesh's cross-section
MeshArea2(m) ==
    Abs(SumSeq([k \in 1..Len(m.shape) |->
            m.shape[k].x * m.shape[(k % Len(m.shape)) + 1].y
            - m.shape[(k % Len(m.shape)) + 1].x * m.shape[k].y]))

\* the step formula of C3
C3_AcceptedConfirmStep ==
    (ConfirmStep /\ isConvexCCW(ensureCCW(uxState.vertices))) =>
        /\ uxState' = Idle
        /\ previewMesh' = Null
        /\ PreviewMeshes(scene') = <<>>
        /\ Len(SolidMeshes(scene')) = Len(SolidMeshes(scene)) + 1
        /\ SubSeq(SolidMeshes(scene'), 1, Len(SolidMeshes(scene))) = SolidMeshes(scene)
        /\ Last(SolidMeshes(scene')).depth = uxState.extrusion
        /\ Len(world') = Len(world) + 1
        /\ SubSeq(world', 1, Len(world)) = world
        /\ Last(world').kind = "convex"
        /\ Last(world').mass = 0
        /\ Last(world').position = Vec3(MeanX(uxState.vertices),
                                        Rat(uxState.extrusion, 2),
                                        MeanZ(uxState.vertices))
        /\ (uxState.vertices = Square /\ uxState.extrusion = 3) =>
               /\ MeshArea2(Last(SolidMeshes(scene'))) = 2 * 4
               /\ Last(SolidMeshes(scene')).depth = 3
               /\ Last(world').position = Vec3(RatInt(1), Rat(3, 2), RatInt(1))

\* C3: a confirm click on a pending extrusion of height h > 0 whose polygon the
\* convexity test accepts moves to Idle, adds exactly one opaque mesh of depth h
\* and exactly one static body, placed at (mean x, h/2, mean z), and leaves no
\* preview; for the square (0,0),(2,0),(2,2),(0,2) at height 3 the new solid has
\* area 4, height 3 and its body sits at (1, 3/2, 1).
C3_AcceptedConfirm == [][C3_AcceptedConfirmStep]_vars

\* C3 witness: the square was closed, raised to height 3 and confirmed
C3_Witness ==
    /\ lastOp = [op |-> "click", code |-> "", from |-> "polygon"]
    /\ uxState = Idle
    /\ previewMesh = Null
    /\ Len(SolidBodies(world)) = StairCount + 1
    /\ Last(world).position = Vec3(RatInt(1), Rat(3, 2), RatInt(1))
    /\ Last(SolidMeshes(scene)) = Mesh(makeExtrudedGeo(Square, 3), FALSE)

\* C4: in every state with a pending extrusion the preview mesh is absent
\* exactly when the height is 0.
C4_PreviewIffHeight ==
    uxState.t = "polygon" =>
        /\ (previewMesh = Null) <=> (uxState.extrusion = 0)
        /\ (PreviewMeshes(scene) = <<>>) <=> (uxState.extrusion = 0)

\* the state and step formulas of C5
C5_HeightNat == uxState.t = "polygon" => uxState.extrusion \in Nat

C5_HeightStep ==
    /\ (uxState.t = "drawing" /\ uxState'.t = "polygon") => uxState'.extrusion = 0
    /\ (lastOp' = Op("keydown", "ArrowUp") /\ uxState.t = "polygon") =>
           uxState' = Polygon(uxState.vertices, uxState.extrusion + 1)
    /\ (lastOp' = Op("keydown", "ArrowDown") /\ uxState.t = "polygon") =>
           uxState' = Polygon(uxState.vertices,
                              IF uxState.extrusion >= 1 THEN uxState.extrusion - 1 ELSE 0)

\* C5: the height of a pending extrusion is a natural number; closing a polygon
\* starts it at 0, ArrowUp yields h + 1 and ArrowDown yields max(0, h - 1).
C5_HeightClamped == []C5_HeightNat /\ [][C5_HeightStep]_vars

\* C5 witness: ArrowDown was handled in a pending extrusion and the height is 0
C5_Witness ==
    /\ lastOp = [op |-> "keydown", code |-> "ArrowDown", from |-> "polygon"]
    /\ uxState.t = "polygon"
    /\ uxState.extrusion = 0

\* the state and step formulas of C6
C6_NoConsecutiveDup ==
    uxState.t = "drawing" =>
        \A i \in 1..(Len(uxState.vertices) - 1) :
            uxState.vertices[i] # uxState.vertices[i + 1]

C6_RepeatStep ==
    (ClickStep /\ uxState.t = "drawing" /\ highlightedVertex # Null
       /\ highlightedVertex = Last(uxState.vertices)
       /\ ~(Len(uxState.vertices) >= 3 /\ highlightedVertex = uxState.vertices[1])) =>
        uxState' = uxState

\* C6: a click in Drawing on the most recently placed vertex that does not close
\* the polygon leaves the authoring state as it is, and no Drawing state holds
\* two equal consecutive vertices.
C6_RepeatClickNoOp == []C6_NoConsecutiveDup /\ [][C6_RepeatStep]_vars

\* C6 witness: a click was handled in Drawing while the snapped vertex is the
\* last vertex of a list of two
C6_Witness ==
    /\ lastOp = [op |-> "click", code |-> "", from |-> "drawing"]
    /\ uxState.t = "drawing"
    /\ Len(uxState.vertices) = 2
    /\ highlightedVertex = Last(uxState.vertices)

\* the step formula of C7
C7_CancelStep ==
    (lastOp' = Op("contextmenu", "") /\ uxState.t = "polygon") =>
        /\ uxState' = Idle
        /\ previewMesh' = Null
        /\ PreviewMeshes(scene') = <<>>
        /\ SolidMeshes(scene') = SolidMeshes(scene)
        /\ Range(scene') \subseteq Range(scene)
        /\ world' = world

\* C7: a secondary click on a pending extrusion, at any height, moves to Idle,
\* leaves no preview mesh in the scene and adds no solid to the scene or the world.
C7_Cancel == [][C7_CancelStep]_vars

\* C7 witness: a pending extrusion was cancelled
C7_Witness ==
    /\ lastOp = [op |-> "contextmenu", code |-> "", from |-> "polygon"]
    /\ uxState = Idle
    /\ previewMesh = Null

\* C8: the verdict of the convexity test on a polygon is the verdict on each of
\* its cyclic rotations and on its reversal.
C8_VerdictInvariant ==
    tested # Null =>
        /\ \A k \in 0..(Len(verts) - 1) : Accepts(Rotate(verts, k)) = tested.ok
        /\ Accepts(Reverse(verts)) = tested.ok

\* the perimeter of an axis-aligned rectangle with four distinct corners, from
\* any corner, in either direction
IsRectangle(vs) ==
    /\ Len(vs) = 4
    /\ \E a, b \in Range(vs) :
          /\ a.x < b.x /\ a.z < b.z
          /\ LET c == <<a, Vertex(b.x, a.z), b, Vertex(a.x, b.z)>>
             IN  \E k \in 0..3 : vs = Rotate(c, k) \/ vs = Rotate(Reverse(c), k)

\* C9: the convexity test accepts every axis-aligned rectangle listed in
\* perimeter order, in either winding direction and from any corner, and the
\* three steps of the default staircase are registered at startup.
C9_RectanglesAccepted ==
    /\ (tested # Null /\ IsRectangle(verts)) => tested.ok
    /\ \A i \in 0..(StairCount - 1) :
          /\ IsRectangle(StairVerts(i))
          /\ Len(SolidMeshes(scene)) >= StairCount
          /\ SolidMeshes(scene)[i + 1] =
                 Mesh(makeExtrudedGeo(StairVerts(i), StairHeight(i)), FALSE)
          /\ Len(SolidBodies(world)) >= StairCount
          /\ SolidBodies(world)[i + 1].position.y = Rat(StairHeight(i), 2)

\* C9 witness: a rectangle listed clockwise (negative shoelace sum) was tested
C9_Witness ==
    /\ tested # Null
    /\ IsRectangle(verts)
    /\ ShoelaceSum(verts) < 0
    /\ Len(SolidBodies(world)) = StairCount + 1

\* the step formula of C10
C10_AirborneJumpStep ==
    (lastOp' = Op("keydown", "Space") /\ ~checkCanJump) =>
        playerBody'.velocity.y = playerBody.velocity.y

\* C10: a Space keydown while the ground check reports no hit leaves the
\* player's vertical velocity as it was.
C10_AirborneJump == [][C10_AirborneJumpStep]_vars

\* C10 witness: Space was pressed while falling with no ground below
C10_Witness ==
    /\ lastOp = [op |-> "keydown", code |-> "Space", from |-> "idle"]
    /\ ~rayHit
    /\ playerBody.velocity.y = RatInt(-1)

\* the step formula of C11
C11_GroundedStopStep ==
    (lastOp'.op = "animate" /\ keys \cap MoveCodes = {} /\ checkCanJump) =>
        /\ playerBody'.velocity.x = Zero
        /\ playerBody'.velocity.z = Zero

\* C11: a frame that finds no movement key held and whose ground check is true
\* ends with the player's horizontal velocity exactly (0, 0), whatever the
\* velocity was before the frame and whatever the physics step left.
C11_GroundedStop == [][C11_GroundedStopStep]_vars

\* C11 witness: a frame ran on the ground with no key held while the player was
\* still moving, and the player is now at rest horizontally
C11_Witness ==
    /\ lastOp.op = "animate"
    /\ lastOp.held = {}
    /\ lastOp.onGround
    /\ lastOp.before.z # Zero
    /\ playerBody.velocity.x = Zero
    /\ playerBody.velocity.z = Zero

\* the magnitude of a number
RatAbs(a) == [num |-> Abs(a.num), den |-> a.den]

\* v, blended by a frame in the air with no key held, decays: it is v times
\* (1 - 0.05), and when v is not 0 it is not 0 and strictly smaller in magnitude
Decays(v, blended) ==
    /\ blended = RatMul(v, RatSub(RatInt(1), Rat(5, 100)))
    /\ v # Zero => (blended # Zero /\ RatLess(RatAbs(blended), RatAbs(v)))

\* C12: in a frame that finds no movement key held and whose ground check is
\* false, the velocity the controller hands to the physics step has each
\* horizontal component multiplied by (1 - 0.05): a non-zero component moves
\* strictly toward 0 in magnitude and is not 0 after the blend of one frame.
C12_AirDecay ==
    (lastOp.op = "animate" /\ lastOp.held \cap MoveCodes = {} /\ ~lastOp.onGround) =>
        /\ Decays(lastOp.before.x, lastOp.blended.x)
        /\ Decays(lastOp.before.z, lastOp.blended.z)
        /\ lastOp.blended.y = lastOp.before.y

\* C12 witness: a frame ran in the air with no key held while the player moved
\* along both horizontal axes
C12_Witness ==
    /\ lastOp.op = "animate"
    /\ lastOp.held = {}
    /\ ~lastOp.onGround
    /\ lastOp.before.x # Zero
    /\ lastOp.before.z # Zero
    /\ lastOp.before.z # lastOp.before.x

\* the step leaves the authoring state, the preview, the scene and the world
\* as they are
AuthoringUntouched ==
    /\ uxState' = uxState
    /\ previewMesh' = previewMesh
    /\ scene' = scene
    /\ world' = world

\* the step formula of C13
C13_NoOpStep ==
    /\ (lastOp'.op = "contextmenu" /\ uxState.t \in {"idle", "drawing"}) =>
           AuthoringUntouched
    /\ (lastOp'.op = "keydown" /\ lastOp'.code \in {"ArrowUp", "ArrowDown"}
          /\ uxState.t \in {"idle", "drawing"}) => AuthoringUntouched
    /\ (lastOp'.op = "click" /\ uxState.t \in {"idle", "drawing"}
          /\ highlightedVertex = Null) => AuthoringUntouched
    /\ (lastOp'.op = "click" /\ uxState.t = "polygon" /\ uxState.extrusion = 0) =>
           AuthoringUntouched

\* C13: the events outside the transition table change neither the authoring
\* state nor the preview nor the registered solids: a secondary click in Idle or
\* Drawing, a height key in Idle or Drawing, a click in Idle or Drawing with no
\* snapped vertex, and a click on a pending extrusion of height 0.
C13_NoOps == [][C13_NoOpStep]_vars

\* C13 witness: with the pointer locked, a click was handled on the closed
\* square at height 0 and the extrusion is still pending
C13_Witness ==
    /\ lastOp = [op |-> "click", code |-> "", from |-> "polygon"]
    /\ pointerLocked
    /\ uxState = Polygon(Square, 0)
    /\ Len(SolidBodies(world)) = StairCount

\* the state and step formulas of C14
C14_ListSizes ==
    /\ uxState.t = "drawing" => Len(uxState.vertices) >= 1
    /\ uxState.t = "polygon" => Len(uxState.vertices) >= 3

C14_EntryStep ==
    /\ (uxState.t # "polygon" /\ uxState'.t = "polygon") =>
           /\ lastOp'.op = "click"
           /\ uxState.t = "drawing"
           /\ highlightedVertex # Null
           /\ highlightedVertex = uxState.vertices[1]
           /\ Len(uxState.vertices) >= 3
           /\ uxState'.vertices = uxState.vertices
    /\ (uxState.t = "polygon" /\ uxState'.t = "polygon") =>
           uxState'.vertices = uxState.vertices

\* C14: a Drawing state holds at least 1 vertex and a PendingExtrusion state at
\* least 3; PendingExtrusion is entered only by a click in Drawing whose snapped
\* vertex equals the first vertex of a list of at least 3, and while it lasts
\* (height keys, rejected confirms) its vertex list stays as it is.
C14_PendingEntry == []C14_ListSizes /\ [][C14_EntryStep]_vars

\* C14 witness: a list of exactly 3 vertices was closed by a click on its first
\* vertex
C14_Witness ==
    /\ lastOp = [op |-> "click", code |-> "", from |-> "drawing"]
    /\ uxState.t = "polygon"
    /\ Len(uxState.vertices) = 3
    /\ uxState.extrusion = 0
    /\ highlightedVertex = uxState.vertices[1]

\* C15: in every state the scene holds as many meshes of confirmed solids as the
\* physics world holds static extrusion bodies, and the i-th body sits at half
\* the depth of the i-th mesh: a solid is registered in both or in neither.
C15_MeshesMatchBodies ==
    /\ Len(SolidMeshes(scene)) = Len(SolidBodies(world))
    /\ \A i \in 1..Len(SolidMeshes(scene)) :
          /\ SolidBodies(world)[i].mass = 0
          /\ SolidBodies(world)[i].position.y = Rat(SolidMeshes(scene)[i].depth, 2)

\* C15 witness: a confirm was accepted: the user's solid is in the scene and in
\* the world
C15_Witness ==
    /\ lastOp = [op |-> "click", code |-> "", from |-> "polygon"]
    /\ uxState = Idle
    /\ Len(SolidMeshes(scene)) = StairCount + 1
    /\ Len(SolidBodies(world)) = StairCount + 1

\* q starts with p
IsPrefix(p, q) == Len(p) <= Len(q) /\ SubSeq(q, 1, Len(p)) = p

\* the step formula of C16
C16_PermanentStep ==
    /\ IsPrefix(SolidMeshes(scene), SolidMeshes(scene'))
    /\ IsPrefix(SolidBodies(world), SolidBodies(world'))
    /\ lastOp'.op = "btn-clear" =>
           /\ SolidMeshes(scene') = SolidMeshes(scene)
           /\ SolidBodies(world') = SolidBodies(world)
           /\ SelectSeq(scene', LAMBDA m : m.kind = "box") = <<>>
           /\ SelectSeq(world', LAMBDA b : b.kind = "box") = <<>>

\* C16: no click, secondary click, key, frame or sidebar button removes the mesh
\* of a confirmed solid from the scene or its body from the physics world: the
\* solids of a state are still there, in order, after every step, and the clear
\* button removes the test boxes and nothing else.
C16_SolidsPermanent == [][C16_PermanentStep]_vars

\* C16 witness: the clear button removed a test box while the user's solid was
\* registered, and the solid is still in the scene and in the world
C16_Witness ==
    /\ lastOp.op = "btn-clear"
    /\ lastOp.boxes = 1
    /\ Len(SolidMeshes(scene)) = StairCount + 1
    /\ Len(SolidBodies(world)) = StairCount + 1
    /\ Last(world).kind = "convex"
    /\ Last(scene).kind = "extrusion"

\* the state and step formulas of C17
C17_OnePreview ==
    /\ Len(PreviewMeshes(scene)) <= 1
    /\ uxState.t \in {"idle", "drawing"} =>
           (previewMesh = Null /\ PreviewMeshes(scene) = <<>>)
    /\ previewMesh # Null => PreviewMeshes(scene) = <<previewMesh>>
    /\ \A i \in 1..Len(world) : world[i].kind \in {"ground", "player", "convex"}

C17_PreviewStep ==
    /\ lastOp'.op \in {"keydown", "contextmenu"} => world' = world
    /\ world' # world =>
           (lastOp'.op = "click" /\ uxState.t = "polygon" /\ uxState' = Idle)

\* C17: the scene holds at most one preview mesh, and none while the authoring
\* state is Idle or Drawing; the steps that build, rebuild or discard the
\* preview (height keys, secondary click) leave the bodies of the physics world
\* as they are, and the world changes only when a confirm registers a solid.
C17_PreviewOnly == []C17_OnePreview /\ [][C17_PreviewStep]_vars

\* C17 witness: the preview was rebuilt by a second ArrowUp and is the only
\* preview mesh in the scene
C17_Witness ==
    /\ lastOp = [op |-> "keydown", code |-> "ArrowUp", from |-> "polygon"]
    /\ uxState.t = "polygon"
    /\ uxState.extrusion = 2
    /\ previewMesh = Mesh(makeExtrudedGeo(uxState.vertices, 2), TRUE)
    /\ PreviewMeshes(scene) = <<previewMesh>>

\* C18: the winding canonicalization returns the reversed vertex list when the
\* shoelace sum of the polygon is negative and the list as given otherwise
\* (sum >= 0).
C18_ReversedIffNegative ==
    tested # Null =>
        ensureCCW(verts) = IF ShoelaceSum(verts) < 0 THEN Reverse(verts) ELSE verts

\* body is the collision body of the polygon vs at height h: 2n vertices, the
\* polygon's (as given or reversed) at y = -h/2 and then again at y = +h/2,
\* each minus the centroid; n + 2 faces over the indices 0..2n-1, the bottom
\* one 0..n-1, the top one n+(n-1) down to n, and one side face per edge; and
\* the body placed at (centroid.x, h/2, centroid.z)
IsExtrusionBody(body, vs, h) ==
    LET n == Len(vs)
        cx == MeanX(vs)
        cz == MeanZ(vs)
        At(o, k, y) == Vec3(RatSub(RatInt(o[k].x), cx), y, RatSub(RatInt(o[k].z), cz))
    IN  /\ Len(body.vertices) = 2 * n
        /\ \E o \in {vs, Reverse(vs)} :
              \A k \in 1..n :
                 /\ body.vertices[k] = At(o, k, Rat(-h, 2))
                 /\ body.vertices[n + k] = At(o, k, Rat(h, 2))
        /\ Len(body.faces) = n + 2
        /\ \A f \in 1..(n + 2) : Range(body.faces[f]) \subseteq 0..(2 * n - 1)
        /\ body.faces[1] = [k \in 1..n |-> k - 1]
        /\ body.faces[2] = [k \in 1..n |-> 2 * n - k]
        /\ \A i \in 0..(n - 1) :
              body.faces[3 + i] = <<(i + 1) % n, i, n + i, n + ((i + 1) % n)>>
        /\ body.position = Vec3(cx, Rat(h, 2), cz)
        /\ body.mass = 0

\* C19: the collision body of an accepted n-gon of height h has exactly 2n
\* vertices (n at y = -h/2, then n at y = +h/2, each minus the centroid) and
\* n + 2 faces with every index in 0..2n-1 (bottom 0..n-1, top in reverse order,
\* side face i made of (i+1) mod n, i, n+i, n+((i+1) mod n)), and is placed at
\* (centroid.x, h/2, centroid.z).
C19_CollisionVolume ==
    (tested # Null /\ tested.ok) =>
        /\ Len(world) = Len(BuildStairs(EmptyStage, 0).world) + 1
        /\ IsExtrusionBody(Last(world), verts, 1)
        /\ \A h \in 1..MaxHeight :
              LET r == addConvexBody(EmptyStage, verts, h)
              IN  r.ok /\ IsExtrusionBody(Last(r.g.world), verts, h)

\* C19 witness: a pentagon of non-zero area listed clockwise was accepted and
\* its body is the last of the world
C19_Witness ==
    /\ tested # Null
    /\ tested.ok
    /\ Len(verts) = 5
    /\ ShoelaceSum(verts) < 0
    /\ Last(world).kind = "convex"
    /\ Len(Last(world).vertices) = 10
    /\ Len(Last(world).faces) = 7

\* the state and step formulas of C20
C20_CameraAtEye ==
    cameraPosition = Vec3(playerBody.position.x,
                          RatAdd(playerBody.position.y, Rat(6, 10)),
                          playerBody.position.z)

C20_FrameStep ==
    /\ lastOp'.op = "animate" =>
           /\ cameraPosition' = Vec3(playerBody'.position.x,
                                     RatAdd(playerBody'.position.y, Rat(6, 10)),
                                     playerBody'.position.z)
           /\ ~lastOp'.onGround =>
                  /\ playerBody'.velocity.x \in {lastOp'.blended.x, Zero, StepPush}
                  /\ playerBody'.velocity.z \in {lastOp'.blended.z, Zero, StepPush}
    /\ lastOp'.op # "animate" =>
           /\ playerBody'.position = playerBody.position
           /\ cameraPosition' = cameraPosition

\* C20: in every frame the physics step consumes the horizontal velocity the
\* controller assigned, and the camera is placed after the step: at the end of
\* every frame the camera position is the player body's position plus
\* (0, 0.6, 0); no input event moves the player body or the camera.
C20_CameraFollows == []C20_CameraAtEye /\ [][C20_FrameStep]_vars

\* C20 witness: a frame in the air, forward key held, moved the player up one
\* unit and the camera is 0.6 above it
C20_Witness ==
    /\ lastOp.op = "animate"
    /\ ~lastOp.onGround
    /\ lastOp.held = {"KeyW"}
    /\ playerBody.position.y = RatInt(2)
    /\ cameraPosition.y = Rat(13, 5)
    /\ playerBody.velocity.z = lastOp.blended.z
    /\ lastOp.blended.z # lastOp.before.z

\* the step formula of C21
C21_JumpStep ==
    (lastOp'.op = "keydown" /\ lastOp'.code = "Space" /\ checkCanJump) =>
        /\ playerBody'.velocity.y = RatInt(6)
        /\ playerBody'.velocity.x = playerBody.velocity.x
        /\ playerBody'.velocity.z = playerBody.velocity.z
        /\ playerBody'.position = playerBody.position
        /\ AuthoringUntouched

\* C21: a Space keydown while the ground check is true sets the player's
\* vertical velocity to 6 and leaves the horizontal velocity components and the
\* authoring state (with its preview, the scene and the world) as they were.
C21_GroundedJump == [][C21_JumpStep]_vars

\* C21 witness: Space was pressed on the ground while an extrusion of positive
\* height was pending and the player was moving along both horizontal axes
C21_Witness ==
    /\ lastOp = [op |-> "keydown", code |-> "Space", from |-> "polygon"]
    /\ uxState.t = "polygon"
    /\ uxState.extrusion > 0
    /\ previewMesh # Null
    /\ playerBody.velocity.y = RatInt(6)
    /\ playerBody.velocity.x # Zero
    /\ playerBody.velocity.z # Zero

\* C23: after a frame, a snapped vertex has integer x and z, each the nearest
\* integer to the coordinate of the frame's ground hit, and its straight-line
\* distance to the camera position of that frame is strictly less than 8; a
\* frame whose ray misses the ground plane leaves no snapped vertex.
C23_SnapInRadius ==
    lastOp.op = "animate" =>
        /\ lastOp.groundHit = Null => highlightedVertex = Null
        /\ highlightedVertex # Null =>
              LET v == highlightedVertex
                  hit == lastOp.groundHit
                  dx == RatSub(cameraPosition.x, RatInt(v.x))
                  dz == RatSub(cameraPosition.z, RatInt(v.z))
                  d2 == RatAdd(RatAdd(RatMul(dx, dx),
                                      RatMul(cameraPosition.y, cameraPosition.y)),
                               RatMul(dz, dz))
              IN  /\ v.x \in Int /\ v.z \in Int
                  /\ 2 * Abs(hit.x.num - v.x * hit.x.den) <= hit.x.den
                  /\ 2 * Abs(hit.z.num - v.z * hit.z.den) <= hit.z.den
                  /\ d2.num < 8 * 8 * d2.den

\* C23 witness: a frame snapped the hit (5.8, 0.2) to the vertex (6, 0), which
\* is inside the radius for a camera at (0, 1.6, 5)
C23_Witness ==
    /\ lastOp.op = "animate"
    /\ lastOp.groundHit = GroundHit(Rat(29, 5), Rat(1, 5))
    /\ highlightedVertex = Vertex(6, 0)
    /\ cameraPosition = Vec3(Zero, Rat(8, 5), RatInt(5))

\* the polygon a solid's mesh was extruded from, in the order it was clicked
MeshPolygon(m) == [k \in 1..Len(m.shape) |-> Vertex(m.shape[k].x, -m.shape[k].y)]

\* three collinear lattice points
Collinear == <<Vertex(0, 0), Vertex(1, 1), Vertex(2, 2)>>

\* C24: every polygon a Solid is registered for has a non-zero shoelace signed
\* area (a closed polygon whose vertices are all collinear is never accepted on
\* confirm).
C24_NonZeroArea ==
    \A i \in 1..Len(SolidMeshes(scene)) :
        ShoelaceSum(MeshPolygon(SolidMeshes(scene)[i])) # 0

\* the state and step formulas of C24 as amended
C24_NoReflexCorner ==
    \A i \in 1..Len(SolidMeshes(scene)) :
        LET vs == MeshPolygon(SolidMeshes(scene)[i])
            turn(k) == LET a == vs[k + 1]
                           b == vs[((k + 1) % Len(vs)) + 1]
                           c == vs[((k + 2) % Len(vs)) + 1]
                       IN  (b.x - a.x) * (c.z - a.z) - (b.z - a.z) * (c.x - a.x)
        IN  IF ShoelaceSum(vs) > 0
            THEN \A k \in 0..(Len(vs) - 1) : turn(k) >= 0
            ELSE \A k \in 0..(Len(vs) - 1) : turn(k) <= 0

C24_CollinearStep ==
    (ConfirmStep /\ uxState.vertices = Collinear) =>
        /\ uxState' = Idle
        /\ Len(SolidMeshes(scene')) = Len(SolidMeshes(scene)) + 1
        /\ ShoelaceSum(MeshPolygon(Last(SolidMeshes(scene')))) = 0
        /\ Len(SolidBodies(world')) = Len(SolidBodies(world)) + 1

\* C24 as amended: every polygon a Solid is registered for has no corner that
\* turns against the order the builder tests it in (the clicked order when the
\* shoelace sum is positive, its reversal otherwise); its area may be 0: the
\* closed collinear polygon (0,0),(1,1),(2,2) is accepted on confirm.
C24_WeaklyConvex == []C24_NoReflexCorner /\ [][C24_CollinearStep]_vars

\* C24 witness: the collinear polygon was confirmed and registered
C24_Witness ==
    /\ lastOp = [op |-> "click", code |-> "", from |-> "polygon"]
    /\ uxState = Idle
    /\ Len(SolidMeshes(scene)) = StairCount + 1
    /\ MeshPolygon(Last(SolidMeshes(scene))) = Collinear
    /\ Last(world).kind = "convex"

\* C25: in every PendingExtrusion state no two cyclically adjacent vertices of
\* the closed polygon are equal; in particular the last differs from the first.
C25_NoCyclicDup ==
    uxState.t = "polygon" =>
        \A i \in 1..Len(uxState.vertices) :
            uxState.vertices[i] # uxState.vertices[(i % Len(uxState.vertices)) + 1]

\* the state and step formulas of C25 as amended
C25_NoNeighbourDup ==
    uxState.t = "polygon" =>
        \A i \in 1..(Len(uxState.vertices) - 1) :
            uxState.vertices[i] # uxState.vertices[i + 1]

C25_ReturnStep ==
    (ClickStep /\ uxState.t = "drawing" /\ Len(uxState.vertices) = 3
       /\ uxState.vertices[3] = uxState.vertices[1]
       /\ highlightedVertex = uxState.vertices[1]) =>
        uxState' = Polygon(uxState.vertices, 0)

\* C25 as amended: in every PendingExtrusion state no vertex of the list equals
\* the one listed right after it; the last vertex may equal the first: a list
\* of the form [a, b, a] is closed by a click on a.
C25_ListNeighbours == []C25_NoNeighbourDup /\ [][C25_ReturnStep]_vars

\* C25 witness: the list (0,0),(2,0),(0,0) was closed by a click on (0,0)
C25_Witness ==
    /\ lastOp = [op |-> "click", code |-> "", from |-> "drawing"]
    /\ uxState = Polygon(<<Vertex(0, 0), Vertex(2, 0), Vertex(0, 0)>>, 0)

\* C26: the snapped vertex is none whenever the authoring state is
\* PendingExtrusion, under every interleaving of frames and input events (so
\* that a click after a confirmed or cancelled extrusion can only capture a
\* vertex snapped by a frame that ran after the return to Idle).
C26_NoSnapWhilePending ==
    uxState.t = "polygon" => highlightedVertex = Null

====
